---- MODULE Spec2Model ----
(***************************************************************************)
(* Keithley 2450 I-V measurement program: SMUController (src/main.py) and  *)
(* the Tk front end that drives it (src/interface_gui.py).                 *)
(*                                                                         *)
(* Two kinds of execution context exist in the program:                    *)
(*   - the Tk main loop, which runs one event handler at a time (button    *)
(*     commands and root.after callbacks);                                 *)
(*   - sweep worker threads, one per threading.Thread started by           *)
(*     start_measurement, each running run_measurement_thread.             *)
(* A worker is cut into steps at every access to state it shares with the  *)
(* main loop or another worker (the instrument, the two measurement_running*)
(* flags), and so are the handlers whose interleaving with a worker        *)
(* matters (abort_measurement, on_closing/close). The other handlers       *)
(* (setup_measurement, connect, set_gpib_address) are one step each, with  *)
(* every outcome of their instrument I/O.                                  *)
(*                                                                         *)
(* Every write/query on the instrument can raise (VISA error, timeout).    *)
(* Nested event loops (root.update() in connect_to_instrument, the modal   *)
(* message boxes) are not modelled: a handler runs to its end before the   *)
(* next event is served.                                                   *)
(*                                                                         *)
(* Numbers: voltages are exact rationals with denominator steps-1, kept as *)
(* their numerator; currents are integers in units of 1e-12 A; a quotient  *)
(* is a pair <<numerator, denominator>>.                                   *)
(***************************************************************************)
EXTENDS Integers, Sequences, FiniteSets, TLC

\* ---- bounds ------------------------------------------------------------
\* sweep threads alive, plus ended ones whose root.after callback is pending
MaxWorkers == 2
\* largest step count typed into the Start form
MaxSteps == 3

\* ---- input sets --------------------------------------------------------
Workers == 1..MaxWorkers
StartVoltages == {0 - 1}
StopVoltages == {1}
\* the Start form: step count, delay, current limit, current range
\* (range: "AUTO", a numeric string "numeric", a non-numeric string "text",
\* all with a unit after them; "word" is a range typed without a unit)
ValidForms == {[steps |-> MaxSteps, delay |-> 0, limit |-> 1, range |-> r] :
                  r \in {"AUTO", "numeric", "text"}}
InvalidForms == {[steps |-> 1, delay |-> 0, limit |-> 1, range |-> "AUTO"],
                 [steps |-> MaxSteps, delay |-> 0 - 1, limit |-> 1, range |-> "AUTO"],
                 [steps |-> MaxSteps, delay |-> 0, limit |-> 0, range |-> "AUTO"],
                 [steps |-> 1, delay |-> 0, limit |-> 1, range |-> "word"]}
Forms == ValidForms \cup InvalidForms
\* readings returned by MEAS:CURR?, in units of 1e-12 A
Readings == {2}

\* config.SMALL_CURRENT_THRESHOLD (1e-12 A) in units of 1e-12 A
SMALL_CURRENT_THRESHOLD == 1

VARIABLES
    instrument,     \* SMUController.instrument: 0 = None, 1 = a handle
    smu_running,    \* SMUController.measurement_running
    output,         \* output relay of the instrument: "on" / "off"
    wire,           \* the commands the last step sent to the instrument
    gui_running,    \* IVCurveGUI.measurement_running
    gui_data,       \* IVCurveGUI.voltages, .currents, .resistances
    gui_pc,         \* position of the Tk main loop
    gui_args,       \* arguments of the handler in progress
    start_button,   \* start_button state (TRUE = NORMAL)
    abort_button,   \* abort_button state
    change_addr_button, \* change_addr_button state
    info,           \* what measurement_info and the progress bar show
    afterQueue,     \* callbacks posted with root.after, not yet run
    reply,          \* what the last step told its caller
    worker          \* the sweep threads alive, oldest first

vars == <<instrument, smu_running, output, wire, gui_running, gui_data,
          gui_pc, gui_args, start_button, abort_button, change_addr_button,
          info, afterQueue, reply, worker>>

smuVars == <<instrument, smu_running, output>>
guiVars == <<gui_running, gui_data, gui_pc, gui_args, start_button,
             abort_button, change_addr_button, info, afterQueue>>

\* ---- helpers -----------------------------------------------------------
\* a step that sent nothing
Silent == [by |-> "none", cmds |-> <<>>]
\* the commands one step sent, in order, and the context that sent them
\* ("gui" or "worker")
Sent(who, cmds) == IF cmds = <<>> THEN Silent ELSE [by |-> who, cmds |-> cmds]

\* what a step told its caller: the message box a handler showed
\* (fn "showerror" or "showinfo"), or the value a method of SMUController
\* returned to a caller other than the GUI (fn the method, ok its success,
\* val the rest of what it returned)
NoReply == [fn |-> "none", ok |-> FALSE, val |-> <<>>]
Box(kind) == [fn |-> kind, ok |-> kind = "showinfo", val |-> <<>>]
Returned(fn, ok, val) == [fn |-> fn, ok |-> ok, val |-> val]
\* a handler raised into the Tk main loop: report_callback_exception prints
\* the traceback on stderr, no box is shown
Traceback == [fn |-> "traceback", ok |-> FALSE, val |-> <<>>]

NoArgs == [start_v |-> 0, stop_v |-> 0, steps |-> 0, range |-> "AUTO",
           closing |-> FALSE, ok |-> FALSE]

NoData == [voltages |-> <<>>, currents |-> <<>>, resistances |-> <<>>]

\* the locals of a thread before perform_sweep has them. idxs, cbs, aborted
\* and on are history: the step index of every appended point, the calls of
\* the callback (step index and progress argument), whether
\* abort_measurement cleared the flag while the thread was in the loop, and
\* whether the sweep has sent OUTP ON.
NoLocals == [pc |-> "start_output", start_v |-> 0, stop_v |-> 0, steps |-> 0,
             i |-> 0, voltages |-> <<>>, currents |-> <<>>,
             resistances |-> <<>>, idxs |-> <<>>, cbs |-> <<>>,
             aborted |-> FALSE, on |-> FALSE]

\* thread w is alive and at this position
At(w, pc) == w \in DOMAIN worker /\ worker[w].pc = pc

\* the threads left when thread w has ended
Ended(w) == SubSeq(worker, 1, w - 1) \o SubSeq(worker, w + 1, Len(worker))

Abs(x) == IF x < 0 THEN 0 - x ELSE x

\* ---- SMUController.perform_sweep: pure parts ---------------------------
\* a sweep whose first point is already one step away from start_v
VoltageNumFromOne(start_v, stop_v, steps, i) ==
    start_v * (steps - 1) + (i + 1) * (stop_v - start_v)

\* voltage of step i, as the numerator of a fraction over steps-1:
\*   voltage_step = (stop_v - start_v) / (steps - 1)
\*   voltage      = start_v + i * voltage_step
VoltageNum(start_v, stop_v, steps, i) ==
    start_v * (steps - 1) + i * (stop_v - start_v)

\* progress counted from the points measured so far, not from the index
ProgressOfPoints(wk) == <<100 * Len(wk.voltages), wk.steps>>

\* progress = 100 * (i + 1) / steps, as <<numerator, denominator>>
Progress(wk) == <<100 * (wk.i + 1), wk.steps>>

\* a measure_point that divides at the threshold itself: `>=` for `>`
ResistanceAtThreshold(vnum, den, current) ==
    IF Abs(current) >= SMALL_CURRENT_THRESHOLD
    THEN <<vnum, den * current>>
    ELSE <<1, 0>>

\* measure_point: resistance = voltage / current, or inf at small currents.
\* voltage = vnum/den, so resistance = vnum / (den * current); <<1, 0>> is inf.
Resistance(vnum, den, current) ==
    IF Abs(current) > SMALL_CURRENT_THRESHOLD
    THEN <<vnum, den * current>>
    ELSE <<1, 0>>

\* a loop that gives up at the first failed point: `break`
AfterFailedPointBreak(wk) ==
    [wk EXCEPT !.pc = "stop_output"]

\* a loop that tries a failed point again instead of going on
AfterFailedPointRetry(wk) ==
    [wk EXCEPT !.pc = "measure"]

\* the loop after measure_point returned (None, None): `continue`
AfterFailedPoint(wk) ==
    [wk EXCEPT !.pc = "loop", !.i = wk.i + 1]

\* the loop after the callback returned: next iteration
AfterCallback(wk) ==
    [wk EXCEPT !.pc = "loop", !.i = wk.i + 1]

\* the loop after a successful measure_point: the three appends, the sleep
AfterMeasuredPoint(wk, current) ==
    LET den  == wk.steps - 1
        vnum == VoltageNum(wk.start_v, wk.stop_v, wk.steps, wk.i)
    IN  [wk EXCEPT !.pc = "callback",
                   !.voltages = Append(@, vnum),
                   !.currents = Append(@, current),
                   !.resistances = Append(@, Resistance(vnum, den, current)),
                   !.idxs = Append(@, wk.i)]

\* for i in range(steps): if not self.measurement_running: break
LoopCheck(wk, running) ==
    IF wk.i >= wk.steps THEN "stop_output"
    ELSE IF ~running THEN "stop_output"
    ELSE "measure"

\* the head of the loop; a thread that has left the loop has no use for the
\* abort history
Checked(wk, running) ==
    [wk EXCEPT !.pc = LoopCheck(wk, running),
               !.aborted = LoopCheck(wk, running) = "measure" /\ @]

\* the callback was called for the current step, with this progress
CalledBack(wk) ==
    [wk EXCEPT !.cbs = Append(@, [i |-> wk.i, progress |-> Progress(wk)])]

\* an exception leaves perform_sweep: its locals are gone
Raised(wk) == [NoLocals EXCEPT !.pc = "raised"]

\* the I/O of one measure_point, in order
MeasureCommands == <<"SOUR:VOLT", "MEAS:CURR?">>

\* ---- the sweep worker: run_measurement_thread -> perform_sweep ---------
\* start_output(): OUTP ON; a failed write raises out of perform_sweep
WStartOutput(w) ==
    /\ At(w, "start_output")
    /\ \/ /\ instrument = 0
          /\ worker' = [worker EXCEPT ![w].pc = "set_running"]
          /\ wire' = Silent
          /\ UNCHANGED output
       \/ /\ instrument # 0
          /\ output' = "on"
          /\ wire' = Sent("worker", <<"OUTP ON">>)
          /\ worker' = [worker EXCEPT ![w].pc = "set_running", ![w].on = TRUE]
       \/ /\ instrument # 0
          /\ worker' = [worker EXCEPT ![w] = Raised(worker[w])]
          /\ wire' = Silent
          /\ UNCHANGED output
    /\ UNCHANGED <<instrument, smu_running, guiVars>>
    /\ reply' = NoReply

\* self.measurement_running = True
WSetRunning(w) ==
    /\ At(w, "set_running")
    /\ smu_running' = TRUE
    /\ worker' = [worker EXCEPT ![w].pc = "loop"]
    /\ wire' = Silent
    /\ UNCHANGED <<instrument, output, guiVars>>
    /\ reply' = NoReply

\* the head of the loop: range exhausted, or the flag test
WLoopCheck(w) ==
    /\ At(w, "loop")
    /\ worker' = [worker EXCEPT ![w] = Checked(worker[w], smu_running)]
    /\ wire' = Silent
    /\ UNCHANGED <<smuVars, guiVars>>
    /\ reply' = NoReply

\* measure_point: write SOUR:VOLT, query MEAS:CURR?, float(); any exception
\* (and no instrument) gives (None, None). Then the appends and the sleep.
WMeasure(w) ==
    /\ At(w, "measure")
    /\ \/ /\ instrument # 0
          /\ \E current \in Readings :
                worker' = [worker EXCEPT ![w] = AfterMeasuredPoint(worker[w], current)]
          /\ wire' = Sent("worker", MeasureCommands)
       \/ /\ instrument # 0
          /\ worker' = [worker EXCEPT ![w] = AfterFailedPoint(worker[w])]
          /\ \E n \in 0..1 : wire' = Sent("worker", SubSeq(MeasureCommands, 1, n))
       \/ /\ instrument = 0
          /\ worker' = [worker EXCEPT ![w] = AfterFailedPoint(worker[w])]
          /\ wire' = Silent
    /\ UNCHANGED <<instrument, smu_running, output, guiVars>>
    /\ reply' = NoReply

\* callback(voltage, current, resistance, progress) = IVCurveGUI.update_progress,
\* run in the worker thread: it returns at once when the GUI flag is clear;
\* its Tk calls can raise in a worker thread, and do raise once the window is
\* destroyed
WCallback(w) ==
    /\ At(w, "callback")
    /\ \/ /\ ~gui_running
          /\ worker' = [worker EXCEPT ![w] = AfterCallback(CalledBack(worker[w]))]
          /\ UNCHANGED info
       \/ /\ gui_running
          /\ gui_pc # "destroyed"
          /\ info' = "point"
          /\ worker' = [worker EXCEPT ![w] = AfterCallback(CalledBack(worker[w]))]
       \/ /\ gui_running
          /\ worker' = [worker EXCEPT ![w] = Raised(CalledBack(worker[w]))]
          /\ UNCHANGED info
    /\ wire' = Silent
    /\ UNCHANGED <<smuVars, gui_running, gui_data, gui_pc, gui_args,
                   start_button, abort_button, change_addr_button, afterQueue>>
    /\ reply' = NoReply

\* stop_output(): OUTP OFF after the loop; a failed write raises
WStopOutput(w) ==
    /\ At(w, "stop_output")
    /\ \/ /\ instrument = 0
          /\ worker' = [worker EXCEPT ![w].pc = "clear_running"]
          /\ wire' = Silent
          /\ UNCHANGED output
       \/ /\ instrument # 0
          /\ output' = "off"
          /\ wire' = Sent("worker", <<"OUTP OFF">>)
          /\ worker' = [worker EXCEPT ![w].pc = "clear_running"]
       \/ /\ instrument # 0
          /\ worker' = [worker EXCEPT ![w] = Raised(worker[w])]
          /\ wire' = Silent
          /\ UNCHANGED output
    /\ UNCHANGED <<instrument, smu_running, guiVars>>
    /\ reply' = NoReply

\* what run_measurement_thread posts for a sweep that returned; `cut` records
\* whether the loop was left by the break
CompletedEvent(wk) ==
    [fn |-> "measurement_completed", cut |-> wk.i < wk.steps]

\* what run_measurement_thread posts for a sweep that raised
ErrorEvent == [fn |-> "show_error", cut |-> FALSE]

\* what perform_sweep returns
SweepResult(wk) == [voltages |-> wk.voltages, currents |-> wk.currents,
                    resistances |-> wk.resistances]

\* self.measurement_running = False; return voltages, currents, resistances;
\* run_measurement_thread stores the result and calls
\* root.after(0, self.measurement_completed); the thread ends. After
\* root.destroy() root.after raises and nothing is posted.
WReturn(w) ==
    /\ At(w, "clear_running")
    /\ smu_running' = FALSE
    /\ gui_data' = SweepResult(worker[w])
    /\ worker' = Ended(w)
    /\ afterQueue' = IF gui_pc = "destroyed" THEN afterQueue
                     ELSE Append(afterQueue, CompletedEvent(worker[w]))
    /\ wire' = Silent
    /\ UNCHANGED <<instrument, output, gui_running, gui_pc, gui_args,
                   start_button, abort_button, change_addr_button, info>>
    /\ reply' = NoReply

\* run_measurement_thread, except branch: root.after(0, show_error)
WRaised(w) ==
    /\ At(w, "raised")
    /\ worker' = Ended(w)
    /\ afterQueue' = IF gui_pc = "destroyed" THEN afterQueue
                     ELSE Append(afterQueue, ErrorEvent)
    /\ wire' = Silent
    /\ UNCHANGED <<smuVars, gui_running, gui_data, gui_pc, gui_args,
                   start_button, abort_button, change_addr_button, info>>
    /\ reply' = NoReply

WorkerStep(w) ==
    \/ WStartOutput(w)
    \/ WSetRunning(w)
    \/ WLoopCheck(w)
    \/ WMeasure(w)
    \/ WCallback(w)
    \/ WStopOutput(w)
    \/ WReturn(w)
    \/ WRaised(w)

\* ---- IVCurveGUI.start_measurement / SMUController.setup_measurement ---
\* the validation of start_measurement
ValidInputs(steps, delay, limit) == steps >= 2 /\ delay >= 0 /\ limit > 0

\* the writes of setup_measurement, in order; a non-numeric range returns
\* False after the auto-range write
SetupCommands(range) ==
    <<"ROUT:TERM REAR", "SOUR:FUNC VOLT", "SOUR:VOLT:RANG", "SOUR:VOLT:ILIM",
      "SENS:FUNC CURR">>
    \o (IF range = "numeric" THEN <<"SENS:CURR:RANG">>
        ELSE <<"SENS:CURR:RANG:AUTO ON">>)
    \o (IF range = "text" THEN <<>>
        ELSE <<"SENS:CURR:NPLC 1", "SOUR:VOLT:READ ON">>)

\* how many writes of setup_measurement went through before one raised: none,
\* or all but the last
SetupFailurePoints(range) == {0, Len(SetupCommands(range)) - 1}

\* what setup_measurement returns when no write raised
SetupReturn(range) == range # "text"

\* setup_measurement(start_v, stop_v, current_limit, current_range), called
\* with a connected instrument: every write went through; or the n+1-th
\* raised and the except branch sent OUTP OFF; or that write raised too.
\* gui_pc "setup_returned" is start_measurement at the test of
\* setup_success; an exception of the OUTP OFF write leaves start_measurement.
SetupMeasurement(args) ==
    \/ /\ wire' = Sent("gui", SetupCommands(args.range))
       /\ gui_pc' = "setup_returned"
       /\ gui_args' = [args EXCEPT !.ok = SetupReturn(args.range), !.range = "AUTO"]
       /\ UNCHANGED output
    \/ /\ \E n \in SetupFailurePoints(args.range) :
             wire' = Sent("gui", Append(SubSeq(SetupCommands(args.range), 1, n),
                                        "OUTP OFF"))
       /\ output' = "off"
       /\ gui_pc' = "setup_returned"
       /\ gui_args' = [args EXCEPT !.ok = FALSE, !.range = "AUTO"]
    \/ /\ \E n \in SetupFailurePoints(args.range) :
             wire' = Sent("gui", SubSeq(SetupCommands(args.range), 1, n))
       /\ UNCHANGED <<output, gui_pc, gui_args>>

\* the parsing of the current range: curr_range_str.split()[1] raises
\* IndexError, which `except ValueError` does not catch, when the text is one
\* word other than "Auto"
RangeParses(range) == range # "word"

\* Start button with this form typed in: the connection check, the parsing,
\* the validation (an error box and return), and setup_measurement
StartClickWith(start_v, stop_v, form) ==
    /\ gui_pc = "idle"
    /\ start_button
    /\ Len(worker) + Len(afterQueue) < MaxWorkers
    /\ IF instrument # 0 /\ RangeParses(form.range)
                          /\ ValidInputs(form.steps, form.delay, form.limit)
       THEN /\ SetupMeasurement([start_v |-> start_v, stop_v |-> stop_v,
                                  steps |-> form.steps, range |-> form.range,
                                  closing |-> FALSE, ok |-> FALSE])
            /\ reply' = NoReply
       ELSE /\ wire' = Silent
            /\ reply' = IF instrument # 0 /\ ~RangeParses(form.range)
                        THEN Traceback
                        ELSE Box("showerror")
            /\ UNCHANGED <<gui_pc, gui_args, output>>
    /\ UNCHANGED <<instrument, smu_running, gui_running, gui_data,
                   start_button, abort_button, change_addr_button, info, afterQueue, worker>>

\* Start button
StartClick ==
    \E start_v \in StartVoltages, stop_v \in StopVoltages, form \in Forms :
        StartClickWith(start_v, stop_v, form)

\* the worker a new thread starts as
NewWorker(args) ==
    [NoLocals EXCEPT !.start_v = args.start_v, !.stop_v = args.stop_v,
                     !.steps = args.steps]

\* a start_measurement that shows the error box and goes on to start the
\* thread: the `return` after the box is missing
StartSetupErrorGoesOn ==
    /\ gui_pc = "setup_returned"
    /\ ~gui_args.ok
    /\ worker' = Append(worker, NewWorker(gui_args))
    /\ gui_data' = NoData
    /\ gui_running' = TRUE
    /\ start_button' = FALSE
    /\ abort_button' = TRUE
    /\ info' = "started"
    /\ gui_pc' = "idle"
    /\ gui_args' = NoArgs
    /\ wire' = Silent
    /\ UNCHANGED <<smuVars, change_addr_button, afterQueue>>
    /\ reply' = Box("showerror")

\* start_measurement when setup_measurement returned False: the error box
StartSetupError ==
    /\ gui_pc = "setup_returned"
    /\ ~gui_args.ok
    /\ gui_pc' = "idle"
    /\ gui_args' = NoArgs
    /\ wire' = Silent
    /\ UNCHANGED <<smuVars, gui_running, gui_data, start_button, abort_button,
                   change_addr_button, info, afterQueue, worker>>
    /\ reply' = Box("showerror")

\* start_measurement when setup_measurement returned True: clear the data,
\* set the UI state, start the thread
StartLaunch ==
    /\ gui_pc = "setup_returned"
    /\ gui_args.ok
    /\ worker' = Append(worker, NewWorker(gui_args))
    /\ gui_data' = NoData
    /\ gui_running' = TRUE
    /\ start_button' = FALSE
    /\ abort_button' = TRUE
    /\ info' = "started"
    /\ gui_pc' = "idle"
    /\ gui_args' = NoArgs
    /\ wire' = Silent
    /\ UNCHANGED <<smuVars, change_addr_button, afterQueue>>
    /\ reply' = NoReply

\* ---- IVCurveGUI.abort_measurement / SMUController.abort_measurement ----
\* a worker inside the loop of perform_sweep
InLoop(wk) == wk.pc \in {"loop", "measure", "callback"}

\* SMUController.abort_measurement, first statement: the flag
AbortFlag(closing) ==
    /\ smu_running' = FALSE
    /\ worker' = [w \in DOMAIN worker |->
                    [worker[w] EXCEPT !.aborted = InLoop(worker[w])]]
    /\ gui_pc' = "abort_stop"
    /\ gui_args' = [NoArgs EXCEPT !.closing = closing]

\* Abort button
AbortClick ==
    /\ gui_pc = "idle"
    /\ abort_button
    /\ IF gui_running
       THEN AbortFlag(FALSE)
       ELSE UNCHANGED <<smu_running, worker, gui_pc, gui_args>>
    /\ wire' = Silent
    /\ UNCHANGED <<instrument, output, gui_running, gui_data,
                   start_button, abort_button, change_addr_button,
                   info, afterQueue>>
    /\ reply' = NoReply

\* SMUController.abort_measurement, second statement: stop_output(); then the
\* rest of IVCurveGUI.abort_measurement. A failed write raises out of both.
AbortStop ==
    /\ gui_pc = "abort_stop"
    /\ \/ /\ IF instrument # 0
             THEN output' = "off" /\ wire' = Sent("gui", <<"OUTP OFF">>)
             ELSE wire' = Silent /\ UNCHANGED output
          /\ gui_running' = FALSE
          /\ start_button' = TRUE
          /\ abort_button' = FALSE
          /\ info' = "aborted"
          /\ gui_pc' = IF gui_args.closing THEN "close" ELSE "idle"
       \/ /\ instrument # 0
          /\ gui_pc' = "idle"
          /\ wire' = Silent
          /\ UNCHANGED <<output, gui_running, start_button, abort_button, info>>
    /\ gui_args' = NoArgs
    /\ UNCHANGED <<instrument, smu_running, gui_data,
                   change_addr_button, afterQueue, worker>>
    /\ reply' = NoReply

\* ---- callbacks posted with root.after -----------------------------------
\* the label measurement_completed sets
CompletedInfo(ev) == "completed"

\* IVCurveGUI.measurement_completed
MeasurementCompleted ==
    /\ gui_pc = "idle"
    /\ afterQueue # <<>>
    /\ Head(afterQueue).fn = "measurement_completed"
    /\ afterQueue' = Tail(afterQueue)
    /\ gui_running' = FALSE
    /\ start_button' = TRUE
    /\ abort_button' = FALSE
    /\ info' = CompletedInfo(Head(afterQueue))
    /\ wire' = Silent
    /\ UNCHANGED <<smuVars, gui_data, gui_pc, gui_args, change_addr_button,
                   worker>>
    /\ reply' = NoReply

\* IVCurveGUI.show_error
ShowError ==
    /\ gui_pc = "idle"
    /\ afterQueue # <<>>
    /\ Head(afterQueue).fn = "show_error"
    /\ afterQueue' = Tail(afterQueue)
    /\ gui_running' = FALSE
    /\ start_button' = TRUE
    /\ abort_button' = FALSE
    /\ wire' = Silent
    /\ UNCHANGED <<smuVars, gui_data, gui_pc, gui_args, change_addr_button,
                   info, worker>>
    /\ reply' = Box("showerror")

\* ---- IVCurveGUI.connect_to_instrument / SMUController.connect_to_instrument
\* what a successful connect sends: connect_to_instrument_safely tests the
\* new handle with *IDN?, connect_to_instrument queries *IDN? again
ConnectCommands == <<"*IDN?", "*IDN?">>

\* Connect button, gpib_helper path (gpib_helper is importable):
\*   - int(self.gpib_address.get()) raises ValueError, or
\*     connect_to_instrument_safely returns (None, error) with or without
\*     its *IDN? having been sent: self.instrument is not touched;
\*   - it returns an instrument: self.instrument is set and *IDN? is queried
\*     again; when that raises the call returns False with the handle kept,
\*     otherwise the GUI enables Start and Change GPIB.
ConnectToInstrument ==
    /\ gui_pc = "idle"
    /\ \/ /\ \E n \in 0..1 : wire' = Sent("gui", SubSeq(ConnectCommands, 1, n))
          /\ reply' = Box("showerror")
          /\ UNCHANGED <<instrument, start_button, change_addr_button>>
       \/ /\ instrument' = 1
          /\ wire' = Sent("gui", ConnectCommands)
          /\ \/ /\ start_button' = TRUE
                /\ change_addr_button' = TRUE
                /\ reply' = NoReply
             \/ /\ reply' = Box("showerror")
                /\ UNCHANGED <<start_button, change_addr_button>>
    /\ UNCHANGED <<smu_running, output, gui_running, gui_data, gui_pc,
                   gui_args, abort_button, info, afterQueue,
                   worker>>

\* ---- IVCurveGUI.change_gpib_address / SMUController.set_gpib_address ---
\* the I/O of set_gpib_address with a valid address: the TSP query of the
\* current address, the SCPI query when that failed, the write (an exception
\* ends the call), the verification query
AddrCommands(tspOk, writeOk) ==
    <<"print(gpib.address)">>
    \o (IF tspOk THEN <<>> ELSE <<":SYSTem:GPIB:ADDRess?">>)
    \o (IF writeOk THEN <<":SYSTem:GPIB:ADDRess", "print(gpib.address)">>
        ELSE <<>>)

\* what the verification query of set_gpib_address can give: the address
\* asked for, another address, or an exception (of the query or of int())
Verifications == {"match", "mismatch", "raise"}

\* a set_gpib_address without the range check
SetGpibAddressUnchecked(connected, new_address, tspOk, writeOk, verify) ==
    IF ~connected THEN [ok |-> FALSE, cmds |-> <<>>]
    ELSE [ok |-> writeOk /\ verify # "mismatch",
          cmds |-> AddrCommands(tspOk, writeOk)]

\* set_gpib_address(new_address): its success flag and what it sent
SetGpibAddress(connected, new_address, tspOk, writeOk, verify) ==
    IF ~connected THEN [ok |-> FALSE, cmds |-> <<>>]
    ELSE IF ~(0 <= new_address /\ new_address <= 30)
    THEN [ok |-> FALSE, cmds |-> <<>>]
    ELSE [ok |-> writeOk /\ verify # "mismatch",
          cmds |-> AddrCommands(tspOk, writeOk)]

\* the ways the I/O of set_gpib_address can go: the first query, the write,
\* the verification when the write went through
AddrOutcomes ==
    {[tspOk |-> t, writeOk |-> TRUE, verify |-> v] :
        t \in BOOLEAN, v \in Verifications}
    \cup {[tspOk |-> t, writeOk |-> FALSE, verify |-> "raise"] : t \in BOOLEAN}

\* the ones followed up from the Change GPIB button: those whose first query
\* worked
GuiAddrOutcomes == {o \in AddrOutcomes : o.tspOk}

\* an address askinteger(minvalue=0, maxvalue=30) lets through
DialogAddresses == {30}

\* Change GPIB button: no instrument (an error box) or a cancelled dialog
\* return at once; otherwise set_gpib_address with the address of the dialog,
\* and an info or error box with its message
ChangeGpibAddress ==
    /\ gui_pc = "idle"
    /\ change_addr_button
    /\ \/ /\ wire' = Silent
          /\ reply' = IF instrument = 0 THEN Box("showerror") ELSE NoReply
       \/ /\ instrument # 0
          /\ \E new_address \in DialogAddresses, o \in GuiAddrOutcomes :
                LET r == SetGpibAddress(TRUE, new_address, o.tspOk, o.writeOk,
                                        o.verify)
                IN  /\ wire' = Sent("gui", r.cmds)
                    /\ reply' = Box(IF r.ok THEN "showinfo" ELSE "showerror")
    /\ UNCHANGED <<instrument, smu_running, output, gui_running, gui_data,
                   gui_pc, gui_args, start_button, abort_button,
                   change_addr_button, info, afterQueue, worker>>

\* ---- IVCurveGUI.on_closing / SMUController.close ------------------------
\* window close: confirm and abort when a measurement is running
CloseClick ==
    /\ gui_pc = "idle"
    /\ IF gui_running
       THEN \/ AbortFlag(TRUE)
            \/ UNCHANGED <<smu_running, worker, gui_pc, gui_args>>
       ELSE /\ gui_pc' = "close"
            /\ UNCHANGED <<smu_running, worker, gui_args>>
    /\ wire' = Silent
    /\ UNCHANGED <<instrument, output, gui_running, gui_data,
                   start_button, abort_button, change_addr_button,
                   info, afterQueue>>
    /\ reply' = NoReply

\* root.destroy(): the main loop ends, the widgets and the pending callbacks
\* are gone
Destroy ==
    /\ gui_pc' = "destroyed"
    /\ start_button' = FALSE
    /\ abort_button' = FALSE
    /\ change_addr_button' = FALSE
    /\ info' = "destroyed"
    /\ afterQueue' = <<>>

\* close(): stop_output(); an exception makes close return False; the
\* window is destroyed when close returned
CloseStop ==
    /\ gui_pc = "close"
    /\ \/ /\ instrument = 0
          /\ Destroy
          /\ wire' = Silent
          /\ UNCHANGED output
       \/ /\ instrument # 0
          /\ output' = "off"
          /\ wire' = Sent("gui", <<"OUTP OFF">>)
          /\ gui_pc' = "close_release"
          /\ UNCHANGED <<start_button, abort_button, change_addr_button,
                         info, afterQueue>>
       \/ /\ instrument # 0
          /\ Destroy
          /\ wire' = Silent
          /\ UNCHANGED output
    /\ UNCHANGED <<instrument, smu_running, gui_running, gui_data, gui_args,
                   worker>>
    /\ reply' = NoReply

\* close(): self.instrument.close(); self.instrument = None; root.destroy()
CloseRelease ==
    /\ gui_pc = "close_release"
    /\ \/ instrument' = 0
       \/ UNCHANGED instrument
    /\ Destroy
    /\ wire' = Silent
    /\ UNCHANGED <<smu_running, output, gui_running, gui_data, gui_args,
                   worker>>
    /\ reply' = NoReply

\* ---- the program ------------------------------------------------------
Init ==
    /\ instrument = 0
    /\ smu_running = FALSE
    /\ output = "off"
    /\ wire = Silent
    /\ gui_running = FALSE
    /\ gui_data = NoData
    /\ gui_pc = "idle"
    /\ gui_args = NoArgs
    /\ start_button = TRUE
    /\ abort_button = FALSE
    /\ change_addr_button = FALSE
    /\ info = "ready"
    /\ afterQueue = <<>>
    /\ reply = NoReply
    /\ worker = <<>>

Next ==
    \/ \E w \in Workers : WorkerStep(w)
    \/ StartClick
    \/ StartSetupError
    \/ StartLaunch
    \/ AbortClick
    \/ AbortStop
    \/ MeasurementCompleted
    \/ ShowError
    \/ ConnectToInstrument
    \/ ChangeGpibAddress
    \/ CloseClick
    \/ CloseStop
    \/ CloseRelease

Spec == Init /\ [][Next]_vars

\* ---- SMUController driven directly -------------------------------------
\* The methods of SMUController called one at a time by a caller other than
\* the GUI (a script, a test), with every outcome of their instrument I/O;
\* reply is what the call returned. The GUI does nothing.
ApiVoltages == (0 - 2)..2
ApiReadings == (0 - 2)..2
ApiAddresses == {0 - 1, 0, 30, 31}

\* what *IDN? can answer: a 2450, or another instrument
Identities == {"KEITHLEY INSTRUMENTS,MODEL 2450,04000000,1.7.0",
               "ACME,MODEL 1,0,0"}

\* the message of a successful connect on the gpib_helper path:
\* f"Connected to {idn}", whatever idn is
ConnectMessage(idn) == <<"Connected to", idn>>

\* connect_to_instrument(gpib_addr) -> (success, message): val is the
\* identity the instrument answered and the message returned
ApiConnect ==
    /\ \/ /\ \E n \in 0..1 : wire' = Sent("caller", SubSeq(ConnectCommands, 1, n))
          /\ reply' = Returned("connect_to_instrument", FALSE, <<>>)
          /\ UNCHANGED instrument
       \/ /\ instrument' = 1
          /\ wire' = Sent("caller", ConnectCommands)
          /\ \/ \E idn \in Identities :
                   reply' = Returned("connect_to_instrument", TRUE,
                                     <<idn, ConnectMessage(idn)>>)
             \/ reply' = Returned("connect_to_instrument", FALSE, <<>>)
    /\ UNCHANGED <<smu_running, output, guiVars, worker>>

\* start_output() -> True, False without an instrument, or the write raises
ApiStartOutput ==
    /\ \/ /\ instrument = 0
          /\ wire' = Silent
          /\ reply' = Returned("start_output", FALSE, <<>>)
          /\ UNCHANGED output
       \/ /\ instrument # 0
          /\ wire' = Sent("caller", <<"OUTP ON">>)
          /\ output' = "on"
          /\ reply' = Returned("start_output", TRUE, <<>>)
       \/ /\ instrument # 0
          /\ wire' = Silent
          /\ reply' = Returned("start_output", FALSE, <<"raised">>)
          /\ UNCHANGED output
    /\ UNCHANGED <<instrument, smu_running, guiVars, worker>>

\* stop_output() -> True, False without an instrument, or the write raises
ApiStopOutput ==
    /\ \/ /\ instrument = 0
          /\ wire' = Silent
          /\ reply' = Returned("stop_output", FALSE, <<>>)
          /\ UNCHANGED output
       \/ /\ instrument # 0
          /\ wire' = Sent("caller", <<"OUTP OFF">>)
          /\ output' = "off"
          /\ reply' = Returned("stop_output", TRUE, <<>>)
       \/ /\ instrument # 0
          /\ wire' = Silent
          /\ reply' = Returned("stop_output", FALSE, <<"raised">>)
          /\ UNCHANGED output
    /\ UNCHANGED <<instrument, smu_running, guiVars, worker>>

\* what a successful measure_point(voltage) returns, with its argument:
\* <<voltage, current, resistance>>
MeasuredPoint(voltage, current) ==
    <<voltage, current, Resistance(voltage, 1, current)>>

\* measure_point(voltage) -> (current, resistance) or (None, None)
ApiMeasurePoint ==
    /\ \E voltage \in ApiVoltages :
          \/ /\ instrument # 0
             /\ \E current \in ApiReadings :
                   reply' = Returned("measure_point", TRUE,
                                     MeasuredPoint(voltage, current))
             /\ wire' = Sent("caller", MeasureCommands)
          \/ /\ instrument # 0
             /\ reply' = Returned("measure_point", FALSE, <<voltage>>)
             /\ \E n \in 0..1 : wire' = Sent("caller", SubSeq(MeasureCommands, 1, n))
          \/ /\ instrument = 0
             /\ reply' = Returned("measure_point", FALSE, <<voltage>>)
             /\ wire' = Silent
    /\ UNCHANGED <<instrument, smu_running, output, guiVars, worker>>

\* set_gpib_address(new_address) -> (success, message)
ApiSetGpibAddress ==
    /\ \E new_address \in ApiAddresses, o \in AddrOutcomes :
          LET r == SetGpibAddress(instrument # 0, new_address, o.tspOk,
                                  o.writeOk, o.verify)
          IN  /\ wire' = Sent("caller", r.cmds)
              /\ reply' = Returned("set_gpib_address", r.ok,
                                   <<new_address, o.verify>>)
    /\ UNCHANGED <<instrument, smu_running, output, guiVars, worker>>

\* a close() without the `if self.instrument` guard: stop_output() returns
\* False, self.instrument.close() raises AttributeError, close returns False
CloseUnguarded(connected, stopOk, closeOk) ==
    IF ~connected \/ ~stopOk
    THEN [ok |-> FALSE, cmds |-> <<>>, off |-> FALSE, released |-> FALSE]
    ELSE [ok |-> closeOk, cmds |-> <<"OUTP OFF">>, off |-> TRUE,
          released |-> closeOk]

\* close(): without a handle True at once; else stop_output(), then
\* self.instrument.close() and self.instrument = None; an exception of
\* either gives False with the handle kept
Close(connected, stopOk, closeOk) ==
    IF ~connected
    THEN [ok |-> TRUE, cmds |-> <<>>, off |-> FALSE, released |-> FALSE]
    ELSE IF ~stopOk
    THEN [ok |-> FALSE, cmds |-> <<>>, off |-> FALSE, released |-> FALSE]
    ELSE [ok |-> closeOk, cmds |-> <<"OUTP OFF">>, off |-> TRUE,
          released |-> closeOk]

\* how a close() call stands to the calls before it: "first" on a session
\* with a handle, "again" right after a close() that released the handle
\* and returned True (or after such a repeated close)
CloseCase ==
    IF instrument # 0 THEN "first"
    ELSE IF reply.fn = "close" /\ reply.ok /\ reply.val # <<"unconnected">>
    THEN "again"
    ELSE "unconnected"

\* close() -> True / False
ApiClose ==
    /\ \E stopOk, closeOk \in BOOLEAN :
          LET r == Close(instrument # 0, stopOk, closeOk)
          IN  /\ wire' = Sent("caller", r.cmds)
              /\ output' = IF r.off THEN "off" ELSE output
              /\ instrument' = IF r.released THEN 0 ELSE instrument
              /\ reply' = Returned("close", r.ok, <<CloseCase>>)
    /\ UNCHANGED <<smu_running, guiVars, worker>>

\* ---- setup_measurement, with the arguments of its commands -------------
ApiStartVoltages == {0 - 2, 1}
ApiStopVoltages == {0 - 1, 2}
ApiLimits == {1}
\* current_range: 'AUTO' in either case, a numeric string, any other string
ApiRanges == {"AUTO", "auto", "0.001", "abc"}
\* the strings float() accepts
NumericRanges == {"0.001"}
\* str.upper()
Upper(text) == IF text = "auto" THEN "AUTO" ELSE text
\* an f-string command: the keyword and the value
Cmd(keyword, value) == keyword \o " " \o ToString(value)

\* the writes of a setup_measurement that takes the stop voltage alone for
\* the source range
SetupWritesStopRange(start_v, stop_v, current_limit, current_range) ==
    <<"ROUT:TERM REAR",
      "SOUR:FUNC VOLT",
      Cmd("SOUR:VOLT:RANG", Abs(stop_v)),
      Cmd("SOUR:VOLT:ILIM", current_limit),
      "SENS:FUNC \"CURR\"">>
    \o (IF Upper(current_range) = "AUTO" THEN <<"SENS:CURR:RANG:AUTO ON">>
        ELSE IF current_range \in NumericRanges
        THEN <<"SENS:CURR:RANG " \o current_range>>
        ELSE <<"SENS:CURR:RANG:AUTO ON">>)
    \o (IF Upper(current_range) = "AUTO" \/ current_range \in NumericRanges
        THEN <<"SENS:CURR:NPLC 1", "SOUR:VOLT:READ ON">>
        ELSE <<>>)

\* the writes of setup_measurement when none raises, in order; with a range
\* float() rejects, auto-range is written and the method returns
SetupWrites(start_v, stop_v, current_limit, current_range) ==
    <<"ROUT:TERM REAR",
      "SOUR:FUNC VOLT",
      Cmd("SOUR:VOLT:RANG",
          IF Abs(start_v) >= Abs(stop_v) THEN Abs(start_v) ELSE Abs(stop_v)),
      Cmd("SOUR:VOLT:ILIM", current_limit),
      "SENS:FUNC \"CURR\"">>
    \o (IF Upper(current_range) = "AUTO" THEN <<"SENS:CURR:RANG:AUTO ON">>
        ELSE IF current_range \in NumericRanges
        THEN <<"SENS:CURR:RANG " \o current_range>>
        ELSE <<"SENS:CURR:RANG:AUTO ON">>)
    \o (IF Upper(current_range) = "AUTO" \/ current_range \in NumericRanges
        THEN <<"SENS:CURR:NPLC 1", "SOUR:VOLT:READ ON">>
        ELSE <<>>)

\* what setup_measurement returns when no write raised: True, or False
\* ("Signal the invalid range")
SetupResult(current_range) ==
    Upper(current_range) = "AUTO" \/ current_range \in NumericRanges

\* what setup_measurement returns from its except branch
GenericSetupFailure == FALSE

\* setup_measurement(start_v, stop_v, current_limit, current_range) -> bool.
\* val is the arguments and how the call went: "done" (no write raised),
\* "write_failed" (a write raised, OUTP OFF was written, False returned),
\* "raised" (the OUTP OFF write raised too), "no_instrument"
ApiSetupMeasurement ==
    /\ \E start_v \in ApiStartVoltages, stop_v \in ApiStopVoltages,
          current_limit \in ApiLimits, current_range \in ApiRanges :
          LET args   == <<start_v, stop_v, current_limit, current_range>>
              writes == SetupWrites(start_v, stop_v, current_limit, current_range)
          IN  \/ /\ instrument = 0
                 /\ wire' = Silent
                 /\ reply' = Returned("setup_measurement", FALSE,
                                      Append(args, "no_instrument"))
                 /\ UNCHANGED output
              \/ /\ instrument # 0
                 /\ wire' = Sent("caller", writes)
                 /\ reply' = Returned("setup_measurement",
                                      SetupResult(current_range),
                                      Append(args, "done"))
                 /\ UNCHANGED output
              \/ /\ instrument # 0
                 /\ \E n \in {0, Len(writes) - 1} :
                       wire' = Sent("caller", SubSeq(writes, 1, n) \o <<"OUTP OFF">>)
                 /\ output' = "off"
                 /\ reply' = Returned("setup_measurement", GenericSetupFailure,
                                      Append(args, "write_failed"))
              \/ /\ instrument # 0
                 /\ \E n \in {0, Len(writes) - 1} :
                       wire' = Sent("caller", SubSeq(writes, 1, n))
                 /\ reply' = Returned("setup_measurement", FALSE,
                                      Append(args, "raised"))
                 /\ UNCHANGED output
    /\ UNCHANGED <<instrument, smu_running, guiVars, worker>>

\* ---- save_data_to_csv ---------------------------------------------------
\* config.CSV_HEADER
CSV_HEADER == <<"Voltage (V)", "Current (A)", "Resistance (Ω)">>

\* csv.writer writes a float as its repr: a voltage or current (an integer
\* here), a resistance (a fraction here, inf as "inf")
Field(x) == ToString(x)
ResistanceField(r) == IF r = <<1, 0>> THEN "inf" ELSE ToString(r)

\* the resistances a field is read back from
ResistanceValues ==
    {Resistance(v, 1, c) : v \in ApiVoltages, c \in ApiReadings}

\* csv.reader and float(): the value whose text this is
ReadField(text) == CHOOSE x \in ApiVoltages \cup ApiReadings : Field(x) = text
ReadResistanceField(text) ==
    CHOOSE r \in ResistanceValues : ResistanceField(r) = text

\* the rows written for the three lists: zip(voltages, currents, resistances)
CsvRows(voltages, currents, resistances) ==
    LET n == IF Len(voltages) <= Len(currents) /\ Len(voltages) <= Len(resistances)
             THEN Len(voltages)
             ELSE IF Len(currents) <= Len(resistances) THEN Len(currents)
             ELSE Len(resistances)
    IN  [k \in 1..n |-> <<Field(voltages[k]), Field(currents[k]),
                          ResistanceField(resistances[k])>>]

\* a save_data_to_csv that forgets the header row
SaveDataToCsvNoHeader(voltages, currents, resistances, writable) ==
    IF ~writable THEN [ok |-> FALSE, file |-> <<>>]
    ELSE [ok |-> TRUE, file |-> CsvRows(voltages, currents, resistances)]

\* save_data_to_csv(filename, voltages, currents, resistances, header):
\* open() or a write raises (writable = FALSE) -> False; else the header
\* row, the data rows, True
SaveDataToCsv(voltages, currents, resistances, writable) ==
    IF ~writable THEN [ok |-> FALSE, file |-> <<>>]
    ELSE [ok |-> TRUE,
          file |-> <<CSV_HEADER>> \o CsvRows(voltages, currents, resistances)]

\* the results saved: up to MaxRows points of a sweep
MaxRows == 2
SavedVoltages == {0 - 1, 1}
SavedReadings == {0, 2}
SavedResults ==
    UNION {[1..n -> {MeasuredPoint(v, c) : v \in SavedVoltages,
                                          c \in SavedReadings}] :
           n \in 0..MaxRows}

\* save_data_to_csv called with the three lists of a result; val is the
\* result, whether the file could be written, and the file's rows
ApiSaveData ==
    /\ \E result \in SavedResults, writable \in BOOLEAN :
          LET r == SaveDataToCsv([k \in DOMAIN result |-> result[k][1]],
                                 [k \in DOMAIN result |-> result[k][2]],
                                 [k \in DOMAIN result |-> result[k][3]],
                                 writable)
          IN  reply' = Returned("save_data_to_csv", r.ok,
                                <<result, writable, r.file>>)
    /\ wire' = Silent
    /\ UNCHANGED <<instrument, smu_running, output, guiVars, worker>>

NextApi ==
    \/ ApiConnect
    \/ ApiStartOutput
    \/ ApiStopOutput
    \/ ApiMeasurePoint
    \/ ApiSetGpibAddress
    \/ ApiClose
    \/ ApiSaveData
    \/ ApiSetupMeasurement

SpecApi == Init /\ [][NextApi]_vars

\* ---- properties --------------------------------------------------------
\* a thread inside perform_sweep
InSweep(wk) == wk.pc \in {"start_output", "set_running", "loop", "measure",
                          "callback", "stop_output", "clear_running"}

SweepActive == \E w \in DOMAIN worker : InSweep(worker[w])

\* this step is the callback of thread w raising out of perform_sweep
CallbackRaises(w) ==
    /\ At(w, "callback")
    /\ worker' = [worker EXCEPT ![w] = Raised(CalledBack(worker[w]))]

\* this step is measure_point of thread w failing
PointFails(w) ==
    /\ WMeasure(w)
    /\ Len(worker'[w].voltages) = Len(worker[w].voltages)

\* the step indices the callback was called for
CallbackIndices(wk) == [k \in 1..Len(wk.cbs) |-> wk.cbs[k].i]

\* the appended points whose callback has returned
PointsCalledBack(wk) ==
    IF wk.pc = "callback" THEN SubSeq(wk.idxs, 1, Len(wk.idxs) - 1) ELSE wk.idxs

\* C1: when perform_sweep ends (it returns after a full or an aborted loop, or
\* the progress callback raises out of it) the instrument output is off. Stated
\* for a sweep that is the only one, so that no other sweep's OUTP ON is seen.
C1_OutputOffAfterSweep ==
    [][\A w \in DOMAIN worker :
          (Len(worker) = 1 /\ (WReturn(w) \/ CallbackRaises(w)))
              => output' = "off"]_vars

\* C2: when setup_measurement has returned failure to start_measurement, the
\* instrument output is off. Stated for a call made while no sweep thread
\* runs, so that no sweep's OUTP ON is seen.
C2_OutputOffAfterFailedSetup ==
    [][(worker = <<>> /\ gui_pc = "idle" /\ gui_pc' = "setup_returned"
                      /\ ~gui_args'.ok)
          => output' = "off"]_vars

\* C3: Start launches no new sweep thread while the thread of an aborted sweep
\* is still in its loop (so at most one perform_sweep is active).
C3_NoStartOverAbortedSweep ==
    [][StartLaunch =>
          \A w \in DOMAIN worker : ~(InLoop(worker[w]) /\ worker[w].aborted)]_vars

\* C4: once abort_measurement has cleared the flag while a thread is in the
\* loop, the thread's next boundary check leaves the loop: it does not go on to
\* measure_point; and the points appended so far stay as they are.
C4_AbortHaltsAtBoundary ==
    [][\A w \in DOMAIN worker :
          (WLoopCheck(w) /\ worker[w].aborted)
              => /\ worker'[w].pc = "stop_output"
                 /\ worker'[w].voltages = worker[w].voltages]_vars

\* C5: abort_measurement, called while a sweep is in progress, sends nothing
\* to the instrument from the main loop: it only clears the flag.
C5_AbortSendsNothing ==
    [][(gui_pc = "abort_stop" /\ SweepActive) => wire'.by # "gui"]_vars

\* C6: while a sweep thread is active, the Connect and Change GPIB handlers
\* send nothing to the instrument and leave the handle alone.
C6_NoAdminDuringSweep ==
    [][(SweepActive /\ (ConnectToInstrument \/ ChangeGpibAddress))
          => (wire' = Silent /\ instrument' = instrument)]_vars

\* C7: a failed measure_point does not end the sweep: nothing is appended, the
\* thread stays in the loop and goes to the next index, and the running flag
\* and the output are untouched.
C7_FailedPointSkipped ==
    [][\A w \in DOMAIN worker :
          PointFails(w)
              => /\ worker'[w].pc = "loop"
                 /\ worker'[w].i = worker[w].i + 1
                 /\ worker'[w].i <= worker[w].steps
                 /\ SweepResult(worker'[w]) = SweepResult(worker[w])
                 /\ worker'[w].idxs = worker[w].idxs
                 /\ smu_running' = smu_running
                 /\ output' = output]_vars

\* C7, its example: N = 3, start = -1, stop = 1; index 1 failed; the loop ran
\* to the end with the rows of index 0 (v = -1) and index 2 (v = 1).
C7_Witness ==
    \E w \in DOMAIN worker :
        /\ worker[w].pc = "stop_output"
        /\ worker[w].steps = 3
        /\ worker[w].i = 3
        /\ worker[w].idxs = <<0, 2>>
        /\ worker[w].voltages = <<0 - 2, 2>>

\* C8: in every sweep thread, and in what the GUI holds, the three lists have
\* the same length, at most N; the step indices of the rows are strictly
\* increasing within 0..N-1; and the row of index i has the voltage
\* start + i*(stop-start)/(N-1), i.e. (N-1)*voltage = (N-1)*start + i*(stop-start).
C8_RowsOfSweep ==
    /\ Len(gui_data.voltages) = Len(gui_data.currents)
    /\ Len(gui_data.voltages) = Len(gui_data.resistances)
    /\ \A w \in DOMAIN worker :
          LET wk == worker[w]
          IN  InSweep(wk) =>
                /\ wk.steps >= 2
                /\ Len(wk.voltages) = Len(wk.currents)
                /\ Len(wk.voltages) = Len(wk.resistances)
                /\ Len(wk.voltages) = Len(wk.idxs)
                /\ Len(wk.voltages) <= wk.steps
                /\ \A k \in 1..Len(wk.idxs) :
                      /\ wk.idxs[k] \in 0..(wk.steps - 1)
                      /\ k > 1 => wk.idxs[k - 1] < wk.idxs[k]
                      /\ wk.voltages[k] = (wk.steps - 1) * wk.start_v
                                          + wk.idxs[k] * (wk.stop_v - wk.start_v)

\* C8: a sweep of three steps that measured all three points
C8_Witness ==
    \E w \in DOMAIN worker :
        /\ worker[w].steps = 3
        /\ worker[w].idxs = <<0, 1, 2>>
        /\ worker[w].voltages = <<0 - 2, 0, 2>>

\* C9, as the specification states it: the callback has been called once for
\* every index the loop is through, failed points included.
C9_CallbackForEveryIndex ==
    \A w \in DOMAIN worker :
        worker[w].pc = "loop" =>
            CallbackIndices(worker[w]) = [k \in 1..worker[w].i |-> k - 1]

\* C9, as the code has it: the callback is called once for every index whose
\* point was appended, in order, and for no other (a failed point is skipped
\* before the callback); its progress is 100*(index+1)/steps of the index.
C9_CallbackForEveryPoint ==
    \A w \in DOMAIN worker :
        LET wk == worker[w]
        IN  InSweep(wk) =>
              /\ CallbackIndices(wk) = PointsCalledBack(wk)
              /\ \A k \in 1..Len(wk.cbs) :
                    wk.cbs[k].progress = <<100 * (wk.cbs[k].i + 1), wk.steps>>

\* C9: index 0 failed, and the callback of index 1 reported 200/3 percent
C9_Witness ==
    \E w \in DOMAIN worker :
        /\ worker[w].pc = "loop"
        /\ worker[w].i = 2
        /\ worker[w].cbs = <<[i |-> 1, progress |-> <<200, 3>>]>>

\* C10: when the main loop handles the end of a sweep whose loop was cut
\* short, the status it shows is the aborted one, not the completed one.
C10_AbortedReportedAborted ==
    [][(MeasurementCompleted /\ Head(afterQueue).cut) => info' = "aborted"]_vars

\* C11: when setup_measurement returned False, start_measurement ends there:
\* it starts no thread, sends nothing, leaves the output and the GUI flag as
\* they are; and a thread is only ever started after a setup that returned True.
C11_FailedSetupStopsRun ==
    [][/\ (gui_pc = "setup_returned" /\ ~gui_args.ok /\ gui_pc' # gui_pc)
            => /\ worker' = worker
               /\ gui_pc' = "idle"
               /\ wire' = Silent
               /\ output' = output
               /\ gui_running' = gui_running
       /\ Len(worker') > Len(worker)
            => (gui_pc = "setup_returned" /\ gui_args.ok)]_vars

\* C11: setup_measurement has returned False; no thread runs, the output is off
C11_Witness ==
    /\ gui_pc = "setup_returned"
    /\ ~gui_args.ok
    /\ worker = <<>>
    /\ output = "off"

\* C12: when close() has released the handle, the output is off.
C12_ClosedMeansOff ==
    [][(gui_pc = "close_release" /\ instrument' = 0) => output' = "off"]_vars

\* C13: when the OUTP OFF write of close() fails with the output on, the
\* failure is not swallowed: on_closing does not go on to destroy the window
\* as it does after a close() that worked.
C13_OffFailureNotSilent ==
    [][~(gui_pc = "close" /\ instrument # 0 /\ output = "on"
                          /\ gui_pc' = "destroyed")]_vars

\* ---- set_gpib_address, connect_to_instrument, start_measurement --------
\* the last call was set_gpib_address and it wrote the address-set command
AddressWritten ==
    /\ reply.fn = "set_gpib_address"
    /\ \E k \in DOMAIN wire.cmds : wire.cmds[k] = ":SYSTem:GPIB:ADDRess"

\* C14: a set_gpib_address that wrote the address-set command reports
\* success, whatever its verification query gave.
C14_WrittenReportsSuccess ==
    AddressWritten => reply.ok

\* C15: a set_gpib_address with an address outside 0..30 returns failure and
\* has sent nothing to the instrument.
C15_BadAddressSendsNothing ==
    (reply.fn = "set_gpib_address" /\ ~(reply.val[1] \in 0..30))
        => (~reply.ok /\ wire = Silent)

\* C15: set_gpib_address(31) was called on a connected session
C15_Witness ==
    /\ reply.fn = "set_gpib_address"
    /\ reply.val[1] = 31
    /\ instrument # 0
    /\ wire = Silent

\* C16: a connect_to_instrument that returned success has sent *RST, then
\* *CLS, then *IDN?.
C16_ResetBeforeIdentity ==
    (reply.fn = "connect_to_instrument" /\ reply.ok)
        => \E i, j, k \in DOMAIN wire.cmds :
              /\ i < j
              /\ j < k
              /\ wire.cmds[i] = "*RST"
              /\ wire.cmds[j] = "*CLS"
              /\ wire.cmds[k] = "*IDN?"

\* C17: a Connect on a session without a handle that ends with the error box
\* (connect_to_instrument returned failure) leaves the session without one.
C17_FailedConnectStaysDisconnected ==
    [][(ConnectToInstrument /\ instrument = 0 /\ reply'.fn = "showerror")
            => instrument' = 0]_vars

\* C18: a Start without a connection, or with steps < 2, delay < 0 or
\* current limit <= 0, sends nothing, starts no thread, does not go on to
\* setup_measurement, and shows an error box.
C18_RejectedStartShowsError ==
    [][\A start_v \in StartVoltages, stop_v \in StopVoltages, form \in Forms :
          (/\ StartClickWith(start_v, stop_v, form)
           /\ \/ instrument = 0
              \/ form.steps < 2
              \/ form.delay < 0
              \/ form.limit <= 0)
            => /\ wire' = Silent
               /\ worker' = worker
               /\ gui_pc' = "idle"
               /\ reply'.fn = "showerror"]_vars

\* C19: a successful measure_point returns resistance = voltage / current
\* when |current| is above the threshold, and inf when it is at or below it,
\* zero included (where a division would have raised).
C19_ResistanceLaw ==
    (reply.fn = "measure_point" /\ reply.ok)
        => LET voltage == reply.val[1]
               current == reply.val[2]
               resistance == reply.val[3]
           IN  IF current > 1 \/ current < 0 - 1
               THEN /\ resistance[2] # 0
                    /\ resistance[1] * current = voltage * resistance[2]
               ELSE resistance = <<1, 0>>

\* C19: measure_point read a current of exactly 0 at a nonzero voltage and
\* returned inf
C19_Witness ==
    /\ reply.fn = "measure_point"
    /\ reply.ok
    /\ reply.val[1] # 0
    /\ reply.val[2] = 0
    /\ reply.val[3] = <<1, 0>>

\* ---- abort_measurement after a completed sweep ------------------------
\* the last thread to end returned from perform_sweep, no thread is alive,
\* and its measurement_completed callback has not run yet: the Abort button
\* still calls abort_measurement
SweepCompleted ==
    /\ worker = <<>>
    /\ afterQueue # <<>>
    /\ afterQueue[Len(afterQueue)].fn = "measurement_completed"
    /\ gui_pc = "idle"
    /\ gui_running
    /\ abort_button

\* the flag and the output as SMUController.abort_measurement leaves them
\* when its write goes through
AbortEffect ==
    [smu_running |-> FALSE,
     output |-> IF instrument # 0 THEN "off" ELSE output]

\* C20: an abort_measurement called after a sweep has completed changes
\* neither the running flag nor the output.
C20_AbortAfterCompletionNoEffect ==
    SweepCompleted
        => AbortEffect = [smu_running |-> smu_running, output |-> output]

\* ---- close, connect_to_instrument, save_data_to_csv ---------------------
\* C21: a close() that follows a close() which returned True returns True,
\* sends nothing and leaves the session without a handle.
C21_SecondCloseDoesNothing ==
    (reply.fn = "close" /\ reply.val = <<"again">>)
        => (reply.ok /\ wire = Silent /\ instrument = 0)

\* C21: close() has been called right after a close() that returned True
C21_Witness ==
    /\ reply.fn = "close"
    /\ reply.val = <<"again">>
    /\ instrument = 0

\* C22: a connect_to_instrument whose identity query answered returns
\* success, and with an identity that is not a 2450 the message is a warning.
C22_UnknownIdentityWarns ==
    (reply.fn = "connect_to_instrument" /\ Len(reply.val) = 2)
        => /\ reply.ok
           /\ reply.val[1] = "ACME,MODEL 1,0,0"
                 => reply.val[2][1] = "Warning: Connected to"

C24_SetupCommandsInOrder ==
    (reply.fn = "setup_measurement" /\ reply.ok)
        => LET start == reply.val[1]
               stop  == reply.val[2]
               limit == reply.val[3]
               range == reply.val[4]
               a     == IF start < 0 THEN 0 - start ELSE start
               b     == IF stop < 0 THEN 0 - stop ELSE stop
           IN  /\ wire.cmds =
                     <<"ROUT:TERM REAR",
                       "SOUR:FUNC VOLT",
                       "SOUR:VOLT:RANG " \o ToString(IF a > b THEN a ELSE b),
                       "SOUR:VOLT:ILIM " \o ToString(limit),
                       "SENS:FUNC \"CURR\"",
                       IF range \in {"AUTO", "auto"}
                       THEN "SENS:CURR:RANG:AUTO ON"
                       ELSE "SENS:CURR:RANG " \o range,
                       "SENS:CURR:NPLC 1",
                       "SOUR:VOLT:READ ON">>
               /\ \A k \in DOMAIN wire.cmds :
                     wire.cmds[k] \notin {"OUTP ON", "OUTP OFF"}

\* C24: a setup for a sweep from -2 V to -1 V with the fixed range 0.001
\* returned True
C24_Witness ==
    /\ reply.fn = "setup_measurement"
    /\ reply.ok
    /\ reply.val = <<0 - 2, 0 - 1, 1, "0.001", "done">>
    /\ wire.cmds[3] = "SOUR:VOLT:RANG 2"
    /\ wire.cmds[6] = "SENS:CURR:RANG 0.001"

\* C25: a setup_measurement with a range that is not numeric, none of whose
\* writes raised, has sent auto-range-on last, returns failure, and what it
\* returns differs from what a generic configuration failure returns.
C25_InvalidRangeToldApart ==
    (/\ reply.fn = "setup_measurement"
     /\ reply.val[5] = "done"
     /\ reply.val[4] = "abc")
        => /\ wire.cmds[Len(wire.cmds)] = "SENS:CURR:RANG:AUTO ON"
           /\ ~reply.ok
           /\ reply.ok # GenericSetupFailure

\* ---- the loop of perform_sweep and its threads --------------------------
\* C26: within a sweep the index never goes back; measure_point makes at most
\* one SOUR:VOLT write followed by one MEAS:CURR? query; and after the
\* transaction of index i, failed or not, the thread reaches measure_point
\* again only through the head of the loop with index i + 1.
C26_OneTransactionPerIndex ==
    [][\A w \in DOMAIN worker :
          /\ WLoopCheck(w) => worker'[w].i = worker[w].i
          /\ WMeasure(w) =>
                /\ \E n \in 0..2 :
                      wire'.cmds = SubSeq(<<"SOUR:VOLT", "MEAS:CURR?">>, 1, n)
                /\ \/ worker'[w].pc = "callback" /\ worker'[w].i = worker[w].i
                   \/ worker'[w].pc = "loop" /\ worker'[w].i = worker[w].i + 1
          /\ WCallback(w) =>
                \/ worker'[w].pc = "loop" /\ worker'[w].i = worker[w].i + 1
                \/ worker'[w].pc = "raised"]_vars

\* C26: the transaction of index 1 failed and the thread is at measure_point
\* for index 2
C26_Witness ==
    \E w \in DOMAIN worker :
        /\ worker[w].pc = "measure"
        /\ worker[w].i = 2
        /\ worker[w].idxs = <<0>>

\* C27: no step of a sweep thread changes the info label.
C27_DisplayFromMainLoopOnly ==
    [][\A w \in DOMAIN worker : WorkerStep(w) => info' = info]_vars

\* C28: a measure_point of a sweep sends its commands only while the output
\* is on.
C28_MeasuredWhileEnergized ==
    [][\A w \in DOMAIN worker :
          (WMeasure(w) /\ wire' # Silent) => output = "on"]_vars

\* C29: when the GUI has finished an abort (label "aborted", its flag clear,
\* no sweep started since), the only thread alive leaves the loop at its
\* next check.
C29_AbortNeverLost ==
    [][\A w \in DOMAIN worker :
          (/\ WLoopCheck(w)
           /\ Len(worker) = 1
           /\ info = "aborted"
           /\ ~gui_running)
              => worker'[w].pc = "stop_output"]_vars

\* C30: when the stop_output() after the loop of a sweep that has sent
\* OUTP ON returns, the sweep has sent its OUTP OFF: the output is off.
C30_SweepTurnsOutputOff ==
    [][\A w \in DOMAIN worker :
          (WStopOutput(w) /\ worker[w].on /\ worker'[w].pc = "clear_running")
              => output' = "off"]_vars

====
